---- MODULE Spec2Model ----
(***************************************************************************)
(* A single Raft node of kon-tiki (raft.py): the Net dispatcher, the Log,  *)
(* the KVStore state machine and the RaftNode role machine, driven by the  *)
(* event loop of RaftNode.main.  One step of the model is one iteration of *)
(* that loop (or the passing of time, or the interrupt that ends it).      *)
(***************************************************************************)
EXTENDS Integers, Sequences, FiniteSets, TLC

\* ------------------------------------------------------------- bounds
MaxTerm == 2        \* terms of elections and of inbound replies: 0..MaxTerm

MaxVal  == 2        \* values of the key-value store laws: 1..MaxVal
MaxLog  == 3        \* entries handed to Log.append in all

\* RaftNode.__init__: self.election_timeout = 2
election_timeout == 2

Nodes   == {"n1", "n2", "n3"}
Clients == {"c1"}
Keys    == {"k"}
Vals    == {"a"}
ReqIds  == {7}                       \* msg_id values of inbound requests
None    == "None"                    \* Python's None for node_id
NoIds   == <<>>                      \* Python's None for node_ids

Range(s) == {s[i] : i \in DOMAIN s}

\* what a raft_init may carry: a cluster of one node, and a cluster of three
\* in which this node is the second of the list
NodeList == <<"n1", "n2", "n3">>
Clusters == {[node_id |-> "n1", node_ids |-> <<"n1">>],
             [node_id |-> "n2", node_ids |-> NodeList]}

VARIABLES
  state,              \* RaftNode.state: nascent, follower, candidate, leader
  current_term,       \* RaftNode.current_term
  node_id,            \* RaftNode.node_id
  node_ids,           \* RaftNode.node_ids
  net_node_id,        \* Net.node_id
  election_deadline,  \* RaftNode.election_deadline, kept as its distance in
                      \* seconds from time.time(): negative once it has passed
  next_msg_id,        \* Net.next_msg_id
  handlers,           \* Net.handlers: message type -> handler
  callbacks,          \* Net.callbacks: msg_id -> reply handler (a closure)
  elections,          \* the closures made by request_votes: <<[term, votes]>>
  entries,            \* Log.entries
  appended,           \* every entry handed to Log.append so far, in order
  kv,                 \* KVStore.state
  running,            \* the while loop of main has not been left
  out,                \* the messages written to stdout by the last iteration
  last,               \* what the last iteration did
  err,                \* the exception the last iteration caught ("" if none)
  pre                 \* role and term when the last iteration began

vars == <<state, current_term, node_id, node_ids, net_node_id,
          election_deadline, next_msg_id, handlers, callbacks, elections,
          entries, appended, kv, running, out, last, err, pre>>

logVars == <<entries, appended>>

nodeVars == <<state, current_term, node_id, node_ids, net_node_id,
              election_deadline, next_msg_id, callbacks, elections, kv>>

\* ----------------------------------------------------------- messages
\* Inbound messages are {src, body}; process_msg never reads msg["dest"].
InitMsgs ==
  {[src |-> c, body |-> [type |-> "raft_init", msg_id |-> r,
                         node_id |-> cl.node_id, node_ids |-> cl.node_ids]]
   : c \in Clients, r \in ReqIds, cl \in Clusters}

ReadMsgs ==
  {[src |-> c, body |-> [type |-> "read", msg_id |-> r, key |-> k]]
   : c \in Clients, r \in ReqIds, k \in Keys}

WriteMsgs ==
  {[src |-> c, body |-> [type |-> "write", msg_id |-> r, key |-> k, value |-> v]]
   : c \in Clients, r \in ReqIds, k \in Keys, v \in Vals}

CasMsgs ==
  {[src |-> c, body |-> [type |-> "cas", msg_id |-> r, key |-> k,
                         from |-> f, to |-> t]]
   : c \in Clients, r \in ReqIds, k \in Keys, f \in Vals, t \in Vals}

KVMsgs == ReadMsgs \cup WriteMsgs \cup CasMsgs

\* the nodes whose replies arrive
Voters == {NodeList[1]}

\* the msg_ids rpc can hand out while terms stay within MaxTerm
ReplyIds == 0..(MaxTerm * (Cardinality(Nodes) - 1) - 1)

VoteResMsgs ==
  {[src |-> n, body |-> [type |-> "request_vote_res", in_reply_to |-> m,
                         term |-> t, vote_granted |-> g]]
   : n \in Voters, m \in ReplyIds, t \in 0..MaxTerm, g \in BOOLEAN}

\* messages of a handled type that also carry in_reply_to
TypedReplyMsgs ==
  {[src |-> q.src, body |-> ("in_reply_to" :> m) @@ q.body]
   : q \in {x \in InitMsgs : Len(x.body.node_ids) = 1} \cup ReadMsgs
            \cup WriteMsgs,
     m \in ReplyIds}

ReplyMsgs == VoteResMsgs \cup TypedReplyMsgs

\* Replies tried when no callback is outstanding for them: process_msg raises
\* before it reads anything but in_reply_to, so one reply per msg_id will do.
StaleMsgs ==
  {r \in VoteResMsgs :
     r.src = NodeList[1] /\ r.body.term = 0 /\ ~r.body.vote_granted}
  \cup {r \in TypedReplyMsgs : r.body.in_reply_to = 0}

\* messages whose type has no registered handler
UnhandledMsgs ==
  {[src |-> n, body |-> [type |-> "request_vote", msg_id |-> r, term |-> t,
                         candidate_id |-> n, last_log_index |-> 1,
                         last_log_term |-> 0]]
   : n \in {NodeList[1]}, r \in ReqIds, t \in 0..MaxTerm}
  \cup {[src |-> c, body |-> [type |-> "bogus", msg_id |-> r]]
        : c \in Clients, r \in ReqIds}

NoMsg == [src |-> None, body |-> [type |-> "none"]]

\* ---------------------------------------------------------------- Net
\* Net.send: {"src": self.node_id, "dest": dest, "body": body}
send(src, dest, body) == [src |-> src, dest |-> dest, body |-> body]

\* Net.reply: body["in_reply_to"] = req["body"]["msg_id"]; send(req["src"], body)
reply(src, req, body) ==
  send(src, req.src, ("in_reply_to" :> req.body.msg_id) @@ body)

\* ---------------------------------------------------------------- Log
\* Log.size: len(self.entries)
\* variant: the default entry is not counted
Log_size_real_entries(es) == Len(es) - 1

Log_size(es) == Len(es)

\* Log.last: self.entries[-1]
Log_last(es) == es[Len(es)]

\* what stands for the IndexError of a list index out of range
IndexError == [term |-> -1, op |-> "IndexError"]

\* a Python list index: es[j], where a negative j counts from the end
PyIndex(es, j) ==
  IF 0 <= j /\ j < Len(es) THEN es[j + 1]
  ELSE IF j < 0 /\ -j <= Len(es) THEN es[Len(es) + j + 1]
  ELSE IndexError

\* Log.get: self.entries[i - 1]
\* variant: the index is used as it is, without the shift by one
Log_get_unshifted(es, i) == PyIndex(es, i)

Log_get(es, i) == PyIndex(es, i - 1)

\* Log.append: self.entries.extend(entries)
Log_append(es, new) == es \o new

\* ------------------------------------------------------------ KVStore
\* variant: a cas whose from differs from the current value still answers
\* with error 22 but stores to
apply_cas_stores_anyway(st, op) ==
  LET t == op.type
      k == op.key
      res == IF t = "read"
             THEN IF k \in DOMAIN st
                  THEN [type |-> "read_ok", value |-> st[k]]
                  ELSE [type |-> "error", code |-> 20, text |-> <<"not found">>]
             ELSE IF t = "write"
             THEN [type |-> "write_ok"]
             ELSE IF k \notin DOMAIN st
                  THEN [type |-> "error", code |-> 20, text |-> <<"not found">>]
                  ELSE IF st[k] # op.from
                  THEN [type |-> "error", code |-> 22,
                        text |-> <<"expected", op.from, "but had", st[k]>>]
                  ELSE [type |-> "cas_ok"]
      st2 == IF t = "write"
             THEN (k :> op.value) @@ st
             ELSE IF t = "cas" /\ k \in DOMAIN st
             THEN (k :> op.to) @@ st
             ELSE st
  IN [state |-> st2, dest |-> op.client,
      body |-> ("in_reply_to" :> op.msg_id) @@ res]

\* variant: a successful cas stores from, not to
apply_cas_stores_from(st, op) ==
  LET t == op.type
      k == op.key
      res == IF t = "read"
             THEN IF k \in DOMAIN st
                  THEN [type |-> "read_ok", value |-> st[k]]
                  ELSE [type |-> "error", code |-> 20, text |-> <<"not found">>]
             ELSE IF t = "write"
             THEN [type |-> "write_ok"]
             ELSE IF k \notin DOMAIN st
                  THEN [type |-> "error", code |-> 20, text |-> <<"not found">>]
                  ELSE IF st[k] # op.from
                  THEN [type |-> "error", code |-> 22,
                        text |-> <<"expected", op.from, "but had", st[k]>>]
                  ELSE [type |-> "cas_ok"]
      st2 == IF t = "write"
             THEN (k :> op.value) @@ st
             ELSE IF t = "cas" /\ k \in DOMAIN st /\ st[k] = op.from
             THEN (k :> op.from) @@ st
             ELSE st
  IN [state |-> st2, dest |-> op.client,
      body |-> ("in_reply_to" :> op.msg_id) @@ res]

\* KVStore.apply: the new mapping and the response {dest, body}
apply(st, op) ==
  LET t == op.type
      k == op.key
      res == IF t = "read"
             THEN IF k \in DOMAIN st
                  THEN [type |-> "read_ok", value |-> st[k]]
                  ELSE [type |-> "error", code |-> 20, text |-> <<"not found">>]
             ELSE IF t = "write"
             THEN [type |-> "write_ok"]
             ELSE IF k \notin DOMAIN st
                  THEN [type |-> "error", code |-> 20, text |-> <<"not found">>]
                  ELSE IF st[k] # op.from
                  THEN [type |-> "error", code |-> 22,
                        text |-> <<"expected", op.from, "but had", st[k]>>]
                  ELSE [type |-> "cas_ok"]
      st2 == IF t = "write"
             THEN (k :> op.value) @@ st
             ELSE IF t = "cas" /\ k \in DOMAIN st /\ st[k] = op.from
             THEN (k :> op.to) @@ st
             ELSE st
  IN [state |-> st2, dest |-> op.client,
      body |-> ("in_reply_to" :> op.msg_id) @@ res]

\* ----------------------------------------------------------- RaftNode
\* RaftNode.other_nodes: list(node_ids) with node_id removed; raises when
\* node_ids is None or does not hold node_id
other_nodes_raises == node_id \notin Range(node_ids)
\* variant: the node itself is not removed from the list
other_nodes_keeps_self == node_ids

other_nodes == SelectSeq(node_ids, LAMBDA n : n # node_id)

\* RaftNode.reset_election_deadline:
\* time.time() + election_timeout * (random.random() + 1), random in [0, 1)
reset_election_deadline ==
  election_deadline' \in election_timeout..(2 * election_timeout - 1)

\* RaftNode.advance_term
advance_term_raises(term) == ~(current_term < term)
advance_term(term) == current_term' = term

\* variant: the role changes but the election deadline is left as it was
become_follower_no_reset ==
  /\ state' = "follower"
  /\ UNCHANGED election_deadline

\* RaftNode.become_follower
become_follower ==
  /\ state' = "follower"
  /\ reset_election_deadline

\* variant: any differing remote term is adopted, a lower one too
maybe_step_down_any_term(remote_term) ==
  IF current_term # remote_term
  THEN /\ current_term' = remote_term
       /\ become_follower
  ELSE UNCHANGED <<current_term, state, election_deadline>>

\* RaftNode.maybe_step_down
maybe_step_down(remote_term) ==
  IF current_term < remote_term
  THEN /\ advance_term(remote_term)
       /\ become_follower
  ELSE UNCHANGED <<current_term, state, election_deadline>>

\* variant: the closure's own term is not compared with current_term
vote_counts_any_election(term, res) ==
  /\ state' = "candidate"
  /\ res.body.term = current_term'
  /\ res.body.vote_granted

\* RaftNode.request_votes.handler: the condition under which the reply res
\* counts as a vote for the closure's election, read after maybe_step_down
vote_counts(term, res) ==
  /\ state' = "candidate"
  /\ current_term' = term
  /\ res.body.term = current_term'
  /\ res.body.vote_granted

\* RaftNode.request_votes.handler, for the closure elections[e]
handler(e, res) ==
  IF "term" \notin DOMAIN res.body
  THEN /\ err' = "KeyError: 'term'"
       /\ UNCHANGED <<current_term, state, election_deadline, elections>>
  ELSE /\ err' = ""
       /\ maybe_step_down(res.body.term)
       /\ IF vote_counts(elections[e].term, res)
          THEN elections' = [elections EXCEPT ![e].votes = @ \cup {res.src}]
          ELSE UNCHANGED elections

\* variant: new_msg_id hands out ids without advancing next_msg_id
request_votes_reuses_ids ==
  IF other_nodes_raises
  THEN /\ err' = "ValueError"
       /\ out' = <<>>
       /\ UNCHANGED <<next_msg_id, callbacks, elections>>
  ELSE LET others == other_nodes
           e      == Len(elections) + 1
           ids    == {next_msg_id + i - 1 : i \in DOMAIN others}
       IN /\ err' = ""
          /\ elections' = Append(elections,
                                 [term |-> current_term', votes |-> {node_id}])
          /\ next_msg_id' = next_msg_id
          /\ callbacks' = [m \in DOMAIN callbacks \cup ids |->
                             IF m \in ids THEN e ELSE callbacks[m]]
          /\ out' = [i \in DOMAIN others |->
                       send(net_node_id, others[i],
                            [type |-> "request_vote",
                             term |-> current_term',
                             candidate_id |-> node_id,
                             last_log_index |-> Log_size(entries),
                             last_log_term |-> Log_last(entries).term,
                             msg_id |-> next_msg_id + i - 1])]

\* RaftNode.request_votes with RaftNode.brpc and Net.rpc: one closure, and for
\* each other node a fresh msg_id, its callback and one request_vote
request_votes ==
  IF other_nodes_raises
  THEN /\ err' = "ValueError"
       /\ out' = <<>>
       /\ UNCHANGED <<next_msg_id, callbacks, elections>>
  ELSE LET others == other_nodes
           e      == Len(elections) + 1
           ids    == {next_msg_id + i - 1 : i \in DOMAIN others}
       IN /\ err' = ""
          /\ elections' = Append(elections,
                                 [term |-> current_term', votes |-> {node_id}])
          /\ next_msg_id' = next_msg_id + Len(others)
          /\ callbacks' = [m \in DOMAIN callbacks \cup ids |->
                             IF m \in ids THEN e ELSE callbacks[m]]
          /\ out' = [i \in DOMAIN others |->
                       send(net_node_id, others[i],
                            [type |-> "request_vote",
                             term |-> current_term',
                             candidate_id |-> node_id,
                             last_log_index |-> Log_size(entries),
                             last_log_term |-> Log_last(entries).term,
                             msg_id |-> next_msg_id + i - 1])]

\* RaftNode.become_candidate
become_candidate ==
  /\ state' = "candidate"
  /\ IF advance_term_raises(current_term + 1)
     THEN /\ err' = "Can't go backwards"
          /\ out' = <<>>
          /\ UNCHANGED <<current_term, election_deadline, next_msg_id,
                         callbacks, elections>>
     ELSE /\ advance_term(current_term + 1)
          /\ reset_election_deadline
          /\ request_votes

\* variant: a nascent node campaigns like a follower
election_from_nascent ==
  IF state = "follower" \/ state = "candidate" \/ state = "nascent"
  THEN become_candidate
  ELSE /\ reset_election_deadline
       /\ err' = ""
       /\ out' = <<>>
       /\ UNCHANGED <<state, current_term, next_msg_id, callbacks, elections>>

\* variant: only a leader sleeps again, every other role campaigns
election_all_but_leader ==
  IF state # "leader"
  THEN become_candidate
  ELSE /\ reset_election_deadline
       /\ err' = ""
       /\ out' = <<>>
       /\ UNCHANGED <<state, current_term, next_msg_id, callbacks, elections>>

\* RaftNode.election, when the deadline has passed (it returns True)
election ==
  IF state = "follower" \/ state = "candidate"
  THEN become_candidate
  ELSE /\ reset_election_deadline
       /\ err' = ""
       /\ out' = <<>>
       /\ UNCHANGED <<state, current_term, next_msg_id, callbacks, elections>>

\* RaftNode.setup_handlers.raft_init
raft_init(msg) ==
  IF state # "nascent"
  THEN /\ err' = "Can't init twice!"
       /\ out' = <<>>
       /\ UNCHANGED nodeVars
  ELSE /\ node_id' = msg.body.node_id
       /\ net_node_id' = msg.body.node_id
       /\ node_ids' = msg.body.node_ids
       /\ become_follower
       /\ out' = <<reply(net_node_id', msg, [type |-> "raft_init_ok"])>>
       /\ err' = ""
       /\ UNCHANGED <<current_term, next_msg_id, callbacks, elections, kv>>

\* variant: the response is sent with source and destination swapped
kv_req_swaps_src_dest(msg) ==
  LET op  == ("client" :> msg.src) @@ msg.body
      res == apply(kv, op)
  IN /\ kv' = res.state
     /\ out' = <<send(res.dest, net_node_id, res.body)>>
     /\ err' = ""
     /\ UNCHANGED <<state, current_term, node_id, node_ids, net_node_id,
                    election_deadline, next_msg_id, callbacks, elections>>

\* RaftNode.setup_handlers.kv_req
kv_req(msg) ==
  LET op  == ("client" :> msg.src) @@ msg.body
      res == apply(kv, op)
  IN /\ kv' = res.state
     /\ out' = <<send(net_node_id, res.dest, res.body)>>
     /\ err' = ""
     /\ UNCHANGED <<state, current_term, node_id, node_ids, net_node_id,
                    election_deadline, next_msg_id, callbacks, elections>>

\* variant: the reply handler is looked up but its entry is not deleted
process_msg_keeps_callback(msg) ==
  IF "in_reply_to" \in DOMAIN msg.body
  THEN LET m == msg.body.in_reply_to
       IN IF m \in DOMAIN callbacks
          THEN /\ UNCHANGED callbacks
               /\ handler(callbacks[m], msg)
               /\ out' = <<>>
               /\ UNCHANGED <<node_id, node_ids, net_node_id, next_msg_id, kv>>
          ELSE /\ err' = "KeyError: in_reply_to"
               /\ out' = <<>>
               /\ UNCHANGED nodeVars
  ELSE IF msg.body.type \in DOMAIN handlers
  THEN IF handlers[msg.body.type] = "raft_init"
       THEN raft_init(msg)
       ELSE kv_req(msg)
  ELSE /\ err' = "No callback or handler"
       /\ out' = <<>>
       /\ UNCHANGED nodeVars

\* variant: a registered type handler is tried before in_reply_to
process_msg_type_first(msg) ==
  IF msg.body.type \in DOMAIN handlers
  THEN IF handlers[msg.body.type] = "raft_init"
       THEN raft_init(msg)
       ELSE kv_req(msg)
  ELSE IF "in_reply_to" \in DOMAIN msg.body
  THEN LET m == msg.body.in_reply_to
       IN IF m \in DOMAIN callbacks
          THEN /\ callbacks' = [i \in DOMAIN callbacks \ {m} |-> callbacks[i]]
               /\ handler(callbacks[m], msg)
               /\ out' = <<>>
               /\ UNCHANGED <<node_id, node_ids, net_node_id, next_msg_id, kv>>
          ELSE /\ err' = "KeyError: in_reply_to"
               /\ out' = <<>>
               /\ UNCHANGED nodeVars
  ELSE /\ err' = "No callback or handler"
       /\ out' = <<>>
       /\ UNCHANGED nodeVars

\* Net.process_msg, for the message msg read from stdin
process_msg(msg) ==
  IF "in_reply_to" \in DOMAIN msg.body
  THEN LET m == msg.body.in_reply_to
       IN IF m \in DOMAIN callbacks
          THEN /\ callbacks' = [i \in DOMAIN callbacks \ {m} |-> callbacks[i]]
               /\ handler(callbacks[m], msg)
               /\ out' = <<>>
               /\ UNCHANGED <<node_id, node_ids, net_node_id, next_msg_id, kv>>
          ELSE /\ err' = "KeyError: in_reply_to"
               /\ out' = <<>>
               /\ UNCHANGED nodeVars
  ELSE IF msg.body.type \in DOMAIN handlers
  THEN IF handlers[msg.body.type] = "raft_init"
       THEN raft_init(msg)
       ELSE kv_req(msg)
  ELSE /\ err' = "No callback or handler"
       /\ out' = <<>>
       /\ UNCHANGED nodeVars

\* ------------------------------------------------------ the event loop
\* RaftNode.main: process_msg() or election() or time.sleep(0.001), with
\* every exception but KeyboardInterrupt caught and logged.
\* An iteration in which stdin holds the message msg: process_msg returns
\* True or raises, and either way election() is not called.
\* variant: an exception is not caught and ends the loop
Iteration_uncaught(msg) ==
  /\ running
  /\ process_msg(msg)
  /\ last' = [kind |-> "msg", msg |-> msg, election |-> FALSE]
  /\ pre' = [state |-> state, current_term |-> current_term]
  /\ running' = (err' = "")
  /\ UNCHANGED <<handlers, logVars>>

Iteration(msg) ==
  /\ running
  /\ process_msg(msg)
  /\ last' = [kind |-> "msg", msg |-> msg, election |-> FALSE]
  /\ pre' = [state |-> state, current_term |-> current_term]
  /\ UNCHANGED <<handlers, logVars, running>>

RecvRaftInit == \E msg \in InitMsgs : Iteration(msg)

RecvKV == \E msg \in KVMsgs : Iteration(msg)

RecvReply ==
  \E msg \in ReplyMsgs :
    /\ msg.body.in_reply_to \in DOMAIN callbacks
    /\ Iteration(msg)

RecvStaleReply ==
  \E msg \in StaleMsgs :
    /\ msg.body.in_reply_to \notin DOMAIN callbacks
    /\ Iteration(msg)

RecvUnhandled == \E msg \in UnhandledMsgs : Iteration(msg)

\* a line that json.loads rejects
RecvMalformed ==
  /\ running
  /\ err' = "JSONDecodeError"
  /\ out' = <<>>
  /\ last' = [kind |-> "malformed", msg |-> NoMsg, election |-> FALSE]
  /\ pre' = [state |-> state, current_term |-> current_term]
  /\ UNCHANGED <<nodeVars, handlers, logVars, running>>

\* No message is available and the election deadline has passed.
ElectionTimeout ==
  /\ running
  /\ election_deadline < 0
  /\ (state = "follower" \/ state = "candidate") => current_term < MaxTerm
  /\ election
  /\ last' = [kind |-> "timer", msg |-> NoMsg, election |-> TRUE]
  /\ pre' = [state |-> state, current_term |-> current_term]
  /\ UNCHANGED <<node_id, node_ids, net_node_id, kv, handlers, logVars,
                 running>>

\* No message is available and the deadline has not passed: election()
\* returns None and the loop sleeps.
Idle ==
  /\ running
  /\ ~(election_deadline < 0)
  /\ err' = ""
  /\ out' = <<>>
  /\ last' = [kind |-> "idle", msg |-> NoMsg, election |-> TRUE]
  /\ pre' = [state |-> state, current_term |-> current_term]
  /\ UNCHANGED <<nodeVars, handlers, logVars, running>>

\* KeyboardInterrupt: the loop breaks and main returns.
Interrupt ==
  /\ running
  /\ running' = FALSE
  /\ err' = "KeyboardInterrupt"
  /\ out' = <<>>
  /\ last' = [kind |-> "interrupt", msg |-> NoMsg, election |-> FALSE]
  /\ pre' = [state |-> state, current_term |-> current_term]
  /\ UNCHANGED <<nodeVars, handlers, logVars>>

\* A second passes: time.time() moves one closer to, or past, the deadline.
\* Once the deadline has passed, more time passing changes nothing the code
\* can see, so the distance is kept at -1.
Tick ==
  /\ running
  /\ election_deadline >= 0
  /\ election_deadline' = election_deadline - 1
  /\ err' = ""
  /\ out' = <<>>
  /\ last' = [kind |-> "tick", msg |-> NoMsg, election |-> FALSE]
  /\ pre' = [state |-> state, current_term |-> current_term]
  /\ UNCHANGED <<state, current_term, node_id, node_ids, net_node_id,
                 next_msg_id, callbacks, elections, kv, handlers, logVars,
                 running>>

\* RaftNode.__init__, Net.__init__, Log.__init__, KVStore.__init__; the
\* initial deadline of 0 epoch seconds has long passed.
Init ==
  /\ state = "nascent"
  /\ current_term = 0
  /\ node_id = None
  /\ node_ids = NoIds
  /\ net_node_id = None
  /\ election_deadline = -1
  /\ next_msg_id = 0
  /\ handlers = [raft_init |-> "raft_init", read |-> "kv_req",
                 write |-> "kv_req", cas |-> "kv_req"]
  /\ callbacks = <<>>
  /\ elections = <<>>
  /\ entries = <<[term |-> 0, op |-> None]>>
  /\ appended = <<>>
  /\ kv = <<>>
  /\ running = TRUE
  /\ out = <<>>
  /\ last = [kind |-> "none", msg |-> NoMsg, election |-> FALSE]
  /\ err = ""
  /\ pre = [state |-> "nascent", current_term |-> 0]

Next ==
  \/ RecvRaftInit
  \/ RecvKV
  \/ RecvReply
  \/ RecvStaleReply
  \/ RecvUnhandled
  \/ RecvMalformed
  \/ ElectionTimeout
  \/ Idle
  \/ Interrupt
  \/ Tick

Spec == Init /\ [][Next]_vars

\* ------------------------------------------- the key-value store alone
\* Client requests over two keys, MaxVal values, two clients and two request
\* ids, handled by a node that may or may not have been initialized.
KVKeys    == {"k", "j"}
KVVals    == 1..MaxVal
KVClients == {"c1", "c2"}
KVReqIds  == {7, 8}

KVReads ==
  {[src |-> c, body |-> [type |-> "read", msg_id |-> r, key |-> k]]
   : c \in KVClients, r \in KVReqIds, k \in KVKeys}

KVWrites ==
  {[src |-> c, body |-> [type |-> "write", msg_id |-> r, key |-> k, value |-> v]]
   : c \in KVClients, r \in KVReqIds, k \in KVKeys, v \in KVVals}

KVCases ==
  {[src |-> c, body |-> [type |-> "cas", msg_id |-> r, key |-> k,
                         from |-> f, to |-> t]]
   : c \in KVClients, r \in KVReqIds, k \in KVKeys, f \in KVVals, t \in KVVals}

ClientRead == \E msg \in KVReads : Iteration(msg)

ClientWrite == \E msg \in KVWrites : Iteration(msg)

ClientCas == \E msg \in KVCases : Iteration(msg)

NextKV ==
  \/ RecvRaftInit
  \/ ClientRead
  \/ ClientWrite
  \/ ClientCas

SpecKV == Init /\ [][NextKV]_vars

\* ------------------------------------------------------------ helpers
\* the last iteration dispatched a message of one of the given types to a
\* type handler (its body carried no in_reply_to)
\* ---------------------------------------------------------------------
\* The log under appends: Log.append is handed lists of entries while the
\* node is initialized and runs elections.

LogOps == {"read", "write"}

LogEntries == [term : 1..MaxTerm, op : LogOps]

\* the lists handed to Log.append: one or two entries
LogBatches ==
  {<<e>> : e \in LogEntries} \cup {<<e, f>> : e \in LogEntries, f \in LogEntries}

\* Log.append(batch)
LogAppend ==
  /\ running
  /\ \E batch \in LogBatches :
       /\ Len(appended) + Len(batch) <= MaxLog
       /\ entries' = Log_append(entries, batch)
       /\ appended' = appended \o batch
  /\ err' = ""
  /\ out' = <<>>
  /\ last' = [kind |-> "append", msg |-> NoMsg, election |-> FALSE]
  /\ pre' = [state |-> state, current_term |-> current_term]
  /\ UNCHANGED <<nodeVars, handlers, running>>

NextLog ==
  \/ RecvRaftInit
  \/ LogAppend
  \/ ElectionTimeout
  \/ Tick

SpecLog == Init /\ [][NextLog]_vars

Dispatched(l, types) ==
  /\ l.kind = "msg"
  /\ "in_reply_to" \notin DOMAIN l.msg.body
  /\ l.msg.body.type \in types

\* the last iteration dispatched a reply carrying a term
IsVoteReply(l) ==
  /\ l.kind = "msg"
  /\ "in_reply_to" \in DOMAIN l.msg.body
  /\ "term" \in DOMAIN l.msg.body

ClientOps == {"read", "write", "cas"}

\* the vote set of election e holds a strict majority of node_ids
HasMajority(e) == 2 * Cardinality(elections[e].votes) > Len(node_ids)

\* ------------------------------------------------------------- claims
\* C1: current_term never decreases: in every step of the node, whatever the
\* event, the new current_term is at least the old one.
C1_TermMonotonic == [][current_term' >= current_term]_vars

\* C1: a reply with a higher term has raised the term of a candidate.
C1_Witness ==
  /\ IsVoteReply(last)
  /\ pre.state = "candidate"
  /\ pre.current_term < current_term
  /\ current_term = last.msg.body.term

\* C2: the role leaves nascent only by a raft_init dispatched to its handler,
\* which sets node_id and node_ids, makes the node a follower and sends
\* raft_init_ok to the sender; every raft_init processed while nascent does
\* so; and a role that is not nascent never becomes nascent again.
C2_NascentUntilInit ==
  [][/\ (state = "nascent" /\ (state' # "nascent"
                               \/ Dispatched(last', {"raft_init"})))
        => /\ Dispatched(last', {"raft_init"})
           /\ state' = "follower"
           /\ node_id' = last'.msg.body.node_id
           /\ node_ids' = last'.msg.body.node_ids
           /\ out' = <<[src |-> node_id', dest |-> last'.msg.src,
                        body |-> [type |-> "raft_init_ok",
                                  in_reply_to |-> last'.msg.body.msg_id]]>>
     /\ state # "nascent" => state' # "nascent"]_vars

\* C2: a raft_init has just made a nascent node a follower.
C2_Witness ==
  /\ Dispatched(last, {"raft_init"})
  /\ pre.state = "nascent"
  /\ state = "follower"
  /\ node_id = last.msg.body.node_id
  /\ Len(out) = 1

\* C3: a raft_init received by an initialized node ends the event loop.
C3_SecondInitIsFatal ==
  (Dispatched(last, {"raft_init"}) /\ pre.state # "nascent") => ~running

\* C4: a follower or candidate answers a client read, write or cas with an
\* error body of code 11.
C4_NotLeaderError ==
  (Dispatched(last, ClientOps) /\ pre.state \in {"follower", "candidate"})
  => /\ Len(out) = 1
     /\ out[1].body.type = "error"
     /\ out[1].body.code = 11

\* C5: a node is never left in role candidate holding, for the election of
\* its current term, the votes of a strict majority of node_ids: it has
\* become leader.
C5_MajorityBecomesLeader ==
  \A e \in DOMAIN elections :
    (elections[e].term = current_term /\ HasMajority(e))
    => state # "candidate"

\* C6: every request_vote an initialized node receives is answered with one
\* request_vote_res to the sender carrying the node's current_term, and with
\* vote_granted false when the request's term is lower than current_term.
C6_RequestVoteAnswered ==
  (Dispatched(last, {"request_vote"}) /\ pre.state # "nascent")
  => /\ Len(out) = 1
     /\ out[1].dest = last.msg.src
     /\ out[1].body.type = "request_vote_res"
     /\ out[1].body.term = current_term
     /\ last.msg.body.term < pre.current_term => ~out[1].body.vote_granted

\* C7: the closures of request_votes are never dropped, and the vote set of
\* the election of term T changes only when a reply with vote_granted true
\* and term T reaches one of that election's callbacks while the node is a
\* candidate in term T, before and after; the change adds the sender and
\* nothing else, so a vote already held leaves the set as it was.
C7_VotesOnlyByGrant ==
  [][/\ Len(elections') >= Len(elections)
     /\ \A e \in DOMAIN elections :
          elections'[e] # elections[e]
          => /\ IsVoteReply(last')
             /\ last'.msg.body.in_reply_to \in DOMAIN callbacks
             /\ callbacks[last'.msg.body.in_reply_to] = e
             /\ last'.msg.body.vote_granted
             /\ last'.msg.body.term = elections[e].term
             /\ state = "candidate" /\ current_term = elections[e].term
             /\ state' = "candidate" /\ current_term' = elections[e].term
             /\ elections'[e] =
                  [elections[e] EXCEPT !.votes = @ \cup {last'.msg.src}]]_vars

\* C7: a grant for the second election has just been counted while the node
\* still holds the vote set of its first election.
C7_Witness ==
  /\ IsVoteReply(last)
  /\ last.msg.body.vote_granted
  /\ state = "candidate"
  /\ Len(elections) >= 2
  /\ elections[Len(elections)].term = current_term
  /\ elections[Len(elections)].votes = {node_id, last.msg.src}
  /\ last.msg.src # node_id

\* C8: when a reply with term R reaches a callback of a candidate and R is
\* greater than current_term, the node ends as follower in term R with the
\* election deadline set at least election_timeout ahead and no vote set
\* changed; a reply with term R <= current_term changes neither the role nor
\* current_term, whatever the role.
C8_StepDownOnHigherTerm ==
  [][(IsVoteReply(last') /\ last'.msg.body.in_reply_to \in DOMAIN callbacks)
     => IF last'.msg.body.term > current_term
        THEN state = "candidate"
             => /\ state' = "follower"
                /\ current_term' = last'.msg.body.term
                /\ election_deadline' >= election_timeout
                /\ elections' = elections
        ELSE /\ state' = state
             /\ current_term' = current_term]_vars

\* C8: a candidate has just stepped down on a reply that granted the vote,
\* and the vote was not counted.
C8_Witness ==
  /\ IsVoteReply(last)
  /\ last.msg.body.vote_granted
  /\ pre.state = "candidate"
  /\ state = "follower"
  /\ pre.current_term < current_term
  /\ current_term = last.msg.body.term
  /\ \A e \in DOMAIN elections : elections[e].votes = {node_id}

\* C9: the timer check of a follower or candidate whose deadline has passed
\* leaves the node candidate in the next term, with the deadline at least
\* election_timeout ahead, and sends one request_vote of the new term to
\* each node of node_ids but itself, each under a fresh msg_id whose callback
\* is registered for the new election.
C9_ElectionStarts ==
  [][(last'.kind = "timer" /\ state \in {"follower", "candidate"})
     => /\ election_deadline < 0
        /\ state' = "candidate"
        /\ current_term' = current_term + 1
        /\ election_deadline' >= election_timeout
        /\ Len(elections') = Len(elections) + 1
        /\ elections'[Len(elections')] =
             [term |-> current_term', votes |-> {node_id}]
        /\ Len(out') = Cardinality(Range(node_ids) \ {node_id})
        /\ \A n \in Range(node_ids) \ {node_id} :
             \E i \in DOMAIN out' : out'[i].dest = n
        /\ \A i \in DOMAIN out' :
             /\ out'[i].src = node_id
             /\ out'[i].dest \in Range(node_ids) \ {node_id}
             /\ out'[i].body.type = "request_vote"
             /\ out'[i].body.term = current_term'
             /\ out'[i].body.msg_id \notin DOMAIN callbacks
             /\ out'[i].body.msg_id \in DOMAIN callbacks'
             /\ callbacks'[out'[i].body.msg_id] = Len(elections')
             /\ \A j \in DOMAIN out' :
                  i # j => /\ out'[i].dest # out'[j].dest
                           /\ out'[i].body.msg_id # out'[j].body.msg_id
        /\ \A m \in DOMAIN callbacks :
             m \in DOMAIN callbacks' /\ callbacks'[m] = callbacks[m]]_vars

\* C9: a candidate of a three-node cluster has just campaigned again.
C9_Witness ==
  /\ last.kind = "timer"
  /\ pre.state = "candidate"
  /\ state = "candidate"
  /\ current_term = pre.current_term + 1
  /\ Len(out) = 2
  /\ out[1].dest # out[2].dest

\* C10: an iteration that dispatches a message still checks the election
\* timer: when the deadline of a follower or candidate has passed, the
\* iteration leaves the node candidate in a higher term.
C10_TimerNotStarved ==
  [][(last'.kind = "msg"
      /\ election_deadline < 0
      /\ state \in {"follower", "candidate"}
      /\ current_term < MaxTerm
      /\ Dispatched(last', ClientOps))
     => /\ state' = "candidate"
        /\ current_term' > current_term]_vars

\* the last iteration read a message carrying in_reply_to
IsReply(l) == l.kind = "msg" /\ "in_reply_to" \in DOMAIN l.msg.body

\* C11: a callback is used at most once: the reply that finds its msg_id in
\* the callback table removes it, also when the handler raises; a msg_id
\* already handed out and no longer in the table never returns to it; and a
\* reply whose msg_id is not in the table reaches no handler: it raises the
\* KeyError of the lookup and changes nothing of the node.
C11_OneShotCallbacks ==
  [][/\ (IsReply(last') /\ last'.msg.body.in_reply_to \in DOMAIN callbacks)
        => last'.msg.body.in_reply_to \notin DOMAIN callbacks'
     /\ \A m \in 0..(next_msg_id - 1) :
          m \notin DOMAIN callbacks => m \notin DOMAIN callbacks'
     /\ (IsReply(last') /\ last'.msg.body.in_reply_to \notin DOMAIN callbacks)
        => /\ err' = "KeyError: in_reply_to"
           /\ UNCHANGED nodeVars]_vars

\* C11: the handler of a callback has just raised, and its msg_id is gone
\* from the table.
C11_Witness ==
  /\ IsReply(last)
  /\ err = "KeyError: 'term'"
  /\ last.msg.body.in_reply_to < next_msg_id
  /\ last.msg.body.in_reply_to \notin DOMAIN callbacks

\* C12: a stale reply (in_reply_to without a callback) and a message whose
\* type has no handler leave role, term, log, key-value mapping, handler
\* table, callback table and next_msg_id as they were, send nothing, and the
\* loop keeps running.
C12_ProtocolErrorsKeepState ==
  [][(last'.kind = "msg"
      /\ IF "in_reply_to" \in DOMAIN last'.msg.body
         THEN last'.msg.body.in_reply_to \notin DOMAIN callbacks
         ELSE last'.msg.body.type \notin DOMAIN handlers)
     => /\ UNCHANGED <<state, current_term, entries, kv, handlers, callbacks,
                       next_msg_id>>
        /\ out' = <<>>
        /\ err' # ""
        /\ running']_vars

\* C12: a candidate has just discarded a reply to a msg_id whose callback was
\* used before.
C12_Witness ==
  /\ IsReply(last)
  /\ err = "KeyError: in_reply_to"
  /\ last.msg.body.in_reply_to < next_msg_id
  /\ state = "candidate"
  /\ running

\* C13: next_msg_id never decreases; every key of the callback table is
\* below it; each callback added by a step has a msg_id that was not handed
\* out before; and every request sent carries such a fresh msg_id, rising in
\* the order sent, with its callback already in the table.
C13_FreshMsgIds ==
  [][/\ next_msg_id' >= next_msg_id
     /\ \A m \in DOMAIN callbacks' : m < next_msg_id'
     /\ \A m \in DOMAIN callbacks' \ DOMAIN callbacks : m >= next_msg_id
     /\ Cardinality(DOMAIN callbacks' \ DOMAIN callbacks)
          = next_msg_id' - next_msg_id
     /\ \A i \in DOMAIN out' :
          "msg_id" \in DOMAIN out'[i].body
          => /\ out'[i].body.msg_id >= next_msg_id
             /\ out'[i].body.msg_id \in DOMAIN callbacks'
             /\ \A j \in DOMAIN out' :
                  i < j => out'[i].body.msg_id < out'[j].body.msg_id]_vars

\* C13: the second election of a three-node cluster has just sent its two
\* requests.
C13_Witness ==
  /\ last.kind = "timer"
  /\ Len(out) = 2
  /\ out[1].body.msg_id >= 2
  /\ out[2].body.msg_id = out[1].body.msg_id + 1
  /\ next_msg_id = out[2].body.msg_id + 1

\* C19: a nascent node has term 0, no callback and no msg_id handed out, and
\* its timer check with the deadline passed only resets the deadline: the
\* role stays nascent, the term 0, nothing is sent and no callback is added.
C19_NascentNeverCampaigns ==
  [][state = "nascent"
     => /\ current_term = 0
        /\ DOMAIN callbacks = {}
        /\ next_msg_id = 0
        /\ last'.kind = "timer"
           => /\ state' = "nascent"
              /\ current_term' = 0
              /\ out' = <<>>
              /\ DOMAIN callbacks' = {}
              /\ next_msg_id' = 0
              /\ elections' = elections
              /\ election_deadline < 0
              /\ election_deadline' >= election_timeout]_vars

\* C19: the timer check of a nascent node has just reset the deadline.
C19_Witness ==
  /\ last.kind = "timer"
  /\ pre.state = "nascent"
  /\ state = "nascent"
  /\ election_deadline >= election_timeout
  /\ current_term = 0
  /\ out = <<>>

\* C20: a message that carries in_reply_to and a type with a registered
\* handler is never given to that handler: it sends nothing and changes
\* neither role, node_id, node_ids nor the key-value mapping, and the
\* iteration ends in the KeyError of the callback lookup or of the reply
\* handler.
C20_ReplyRoutingFirst ==
  [][(IsReply(last') /\ last'.msg.body.type \in DOMAIN handlers)
     => /\ UNCHANGED <<state, node_id, node_ids, net_node_id, kv,
                       current_term>>
        /\ out' = <<>>
        /\ err' = IF last'.msg.body.in_reply_to \in DOMAIN callbacks
                  THEN "KeyError: 'term'"
                  ELSE "KeyError: in_reply_to"]_vars

\* C20: a raft_init carrying in_reply_to has just been read by a nascent
\* node, which is still nascent.
C20_Witness ==
  /\ IsReply(last)
  /\ last.msg.body.type = "raft_init"
  /\ state = "nascent"
  /\ node_id = None
  /\ out = <<>>

\* the mappings m1 and m2 agree on every key but k
SameButAt(m1, m2, k) ==
  /\ DOMAIN m1 \ {k} = DOMAIN m2 \ {k}
  /\ \A x \in DOMAIN m1 \ {k} : m1[x] = m2[x]

\* C14: a read, a cas of an absent key (error 20) and a cas whose from is not
\* the current value (error 22) leave the key-value mapping as it was; a
\* write stores its value and a cas whose from is the current value stores
\* to, and neither changes any key but its own.
C14_KVFrame ==
  [][Dispatched(last', ClientOps)
     => LET b == last'.msg.body
            k == b.key
        IN /\ SameButAt(kv, kv', k)
           /\ b.type = "read" => kv' = kv
           /\ b.type = "write" => (k \in DOMAIN kv' /\ kv'[k] = b.value)
           /\ (b.type = "cas" /\ k \notin DOMAIN kv)
              => /\ kv' = kv
                 /\ out'[1].body.type = "error"
                 /\ out'[1].body.code = 20
           /\ (b.type = "cas" /\ k \in DOMAIN kv /\ kv[k] # b.from)
              => /\ kv' = kv
                 /\ out'[1].body.type = "error"
                 /\ out'[1].body.code = 22
           /\ (b.type = "cas" /\ k \in DOMAIN kv /\ kv[k] = b.from)
              => /\ kv'[k] = b.to
                 /\ out'[1].body.type = "cas_ok"]_vars

\* C14: a cas has just been refused with error 22, the other key being set.
C14_Witness ==
  /\ Dispatched(last, {"cas"})
  /\ out[1].body.type = "error"
  /\ out[1].body.code = 22
  /\ DOMAIN kv = KVKeys
  /\ kv[last.msg.body.key] # last.msg.body.from
  /\ kv[last.msg.body.key] # last.msg.body.to

\* the op of a client request as kv_req hands it to apply
KVOp(t, k, rest) ==
  [type |-> t, key |-> k, msg_id |-> 7, client |-> "c1"] @@ rest

\* C15: from every mapping the store reaches, for all keys k and values v, w:
\* write k v, cas k v w, read k answer write_ok, cas_ok and read_ok with
\* value w; and write k v, read k answers read_ok with value v.
C15_WriteCasRead ==
  \A k \in KVKeys, v \in KVVals, w \in KVVals :
    LET a1 == apply(kv, KVOp("write", k, [value |-> v]))
        a2 == apply(a1.state, KVOp("cas", k, [from |-> v, to |-> w]))
        a3 == apply(a2.state, KVOp("read", k, <<>>))
        b2 == apply(a1.state, KVOp("read", k, <<>>))
    IN /\ a1.body.type = "write_ok"
       /\ a2.body.type = "cas_ok"
       /\ a3.body.type = "read_ok"
       /\ a3.body.value = w
       /\ b2.body.type = "read_ok"
       /\ b2.body.value = v

\* C15: a cas from one value to another has just succeeded on a written key
\* of a mapping that holds both keys.
C15_Witness ==
  /\ Dispatched(last, {"cas"})
  /\ out[1].body.type = "cas_ok"
  /\ last.msg.body.from # last.msg.body.to
  /\ DOMAIN kv = KVKeys
  /\ kv[last.msg.body.key] = last.msg.body.to

\* C16: a client read, write or cas given to its handler is answered with
\* exactly one message, from this node to the sender of the request, with
\* in_reply_to equal to the request's msg_id, and no exception is raised.
C16_OneReplyToSender ==
  Dispatched(last, ClientOps)
  => /\ Len(out) = 1
     /\ out[1].src = net_node_id
     /\ out[1].dest = last.msg.src
     /\ out[1].body.in_reply_to = last.msg.body.msg_id
     /\ out[1].body.type \in {"read_ok", "write_ok", "cas_ok", "error"}
     /\ err = ""

\* C16: the second client has just been answered by an initialized node.
C16_Witness ==
  /\ Dispatched(last, {"read"})
  /\ last.msg.src = "c2"
  /\ last.msg.body.msg_id = 8
  /\ last.msg.body.key \in DOMAIN kv
  /\ out = <<[src |-> node_id, dest |-> "c2",
              body |-> [type |-> "read_ok", in_reply_to |-> 8,
                        value |-> kv[last.msg.body.key]]]>>
  /\ node_id # None

\* the default entry Log.__init__ puts in a new log
Sentinel == [term |-> 0, op |-> None]

C18_SizeIsLastIndex ==
  /\ Log_get(entries, Log_size(entries)) = Log_last(entries)
  /\ last.kind = "timer"
     => \A i \in DOMAIN out :
          out[i].body.type = "request_vote"
          => /\ out[i].body.term = current_term
             /\ out[i].body.candidate_id = node_id
             /\ out[i].body.last_log_index = Log_size(entries)
             /\ out[i].body.last_log_term
                  = Log_get(entries, out[i].body.last_log_index).term

\* C18: a candidate whose log holds appended entries has just asked both
\* other nodes for their vote.
C18_Witness ==
  /\ last.kind = "timer"
  /\ state = "candidate"
  /\ Len(out) = 2
  /\ Len(appended) >= 2
  /\ appended[Len(appended)].term # appended[Len(appended) - 1].term
  /\ out[2].body.type = "request_vote"
  /\ out[2].body.last_log_index = Len(appended) + 1
  /\ out[2].body.last_log_term = appended[Len(appended)].term

====
